---- MODULE Spec2Model ----
(***************************************************************************)
(* The SQL compilation engine of rustorm (trait Database, src/database.rs) *)
(* as a state machine: a caller holds a Query and a database whose         *)
(* sql_options() is a fixed capability profile, calls build_query and      *)
(* either gets a SqlFrag back or the builder panics on a failed assert!.   *)
(*                                                                         *)
(* A Rust string is modelled as a sequence of tokens (each token a TLA+    *)
(* string), the SQL text of a SqlFrag as the concatenation of everything   *)
(* appended to it.  Numbers are formatted digit by digit (fmt).            *)
(***************************************************************************)
EXTENDS Integers, Sequences, FiniteSets, TLC

\* query, pc and result are the one compilation of Spec; threads holds the
\* compilations of SpecThreads, each with its query, writer and position
VARIABLES query, sql_options, pc, result, threads

vars == <<query, sql_options, pc, result, threads>>

(***************************************************************************)
(* Bounds of the model.                                                    *)
(***************************************************************************)
MaxVal == 3        \* literal values are 1..MaxVal
MaxPage == 2       \* page is absent or in 0..MaxPage
MaxPageSize == 10  \* page_size is absent, 1 or MaxPageSize
MaxFilters == 2    \* a top-level filter list has 0..MaxFilters filters
MaxDepth == 2      \* sub-queries nest to depth MaxDepth

(***************************************************************************)
(* Option<T>                                                               *)
(***************************************************************************)
None == [some |-> FALSE]
Some(v) == [some |-> TRUE, val |-> v]

(***************************************************************************)
(* enum SqlOption; a profile is the set sql_options() returns.             *)
(***************************************************************************)
UsesNumberedParam == "UsesNumberedParam"
UsesQuestionMark == "UsesQuestionMark"
SupportsReturningClause == "SupportsReturningClause"
UsesSchema == "UsesSchema"

(***************************************************************************)
(* format!("{}", n) for an unsigned n: its decimal digits.                 *)
(***************************************************************************)
Digit == <<"0", "1", "2", "3", "4", "5", "6", "7", "8", "9">>

RECURSIVE fmt(_)
fmt(n) == IF n < 10 THEN <<Digit[n + 1]>>
          ELSE fmt(n \div 10) \o <<Digit[(n % 10) + 1]>>

(***************************************************************************)
(* writer::SqlFrag, the Fragment Writer: the text, the parameters and the  *)
(* profile it was created with.  panicked marks a builder that has been    *)
(* unwound by a failed assert! or an index out of bounds: nothing is       *)
(* written after that and the fragment is never returned.                  *)
(***************************************************************************)
new(opts) == [panicked |-> FALSE, sql |-> <<>>, params |-> <<>>, sql_options |-> opts]

panic(w) == [w EXCEPT !.panicked = TRUE]

append(w, s) == IF w.panicked THEN w ELSE [w EXCEPT !.sql = @ \o s]

comma(w) == append(w, <<",">>)

commasp(w) == append(w, <<", ">>)

ln(w) == append(w, <<"\n">>)

RECURSIVE tabs(_)
tabs(n) == IF n = 0 THEN <<>> ELSE <<"\t">> \o tabs(n - 1)

ln_tabs(w, n) == append(w, <<"\n">> \o tabs(n))

ln_tab(w) == ln_tabs(w, 1)

\* bind: push the value, then the placeholder of the profile; a numbered
\* placeholder carries the position of the value in this writer's list.
parameter(w, value) ==
    IF w.panicked THEN w
    ELSE LET pushed == [w EXCEPT !.params = Append(@, value)]
         IN  IF UsesNumberedParam \in w.sql_options
               THEN append(pushed, <<"$">> \o fmt(Len(pushed.params)))
             ELSE IF UsesQuestionMark \in w.sql_options
               THEN append(pushed, <<"?">>)
             ELSE pushed

(***************************************************************************)
(* query::ColumnName, query::TableName and the accessors of query::Query   *)
(* the builders call.                                                      *)
(***************************************************************************)
column_complete_name(c) == <<c.table, ".", c.column>>

table_complete_name(t) == <<t.schema, ".", t.name>>

get_from_table(q) ==
    IF q.from.some /\ q.from.val.operand.kind = "TableName"
      THEN Some(q.from.val.operand.table_name)
      ELSE None

RECURSIVE columns_of(_)
columns_of(fields) ==
    IF fields = <<>> THEN <<>>
    ELSE (IF Head(fields).operand.kind = "ColumnName"
            THEN <<Head(fields).operand.column_name>> ELSE <<>>)
         \o columns_of(Tail(fields))

get_enumerated_columns(q) == columns_of(q.enumerated_fields)

(***************************************************************************)
(* The engine.  Every procedure takes the profile (self.sql_options()),    *)
(* the writer and the enclosing query, and returns the writer.  A panic    *)
(* unwinds through every caller: a procedure entered with a panicked       *)
(* writer does nothing.                                                    *)
(***************************************************************************)
RECURSIVE build_query(_, _)
RECURSIVE build_operand(_, _, _, _)
RECURSIVE build_operand_list(_, _, _, _, _)
RECURSIVE build_condition(_, _, _, _)
RECURSIVE build_field(_, _, _, _)
RECURSIVE build_filter(_, _, _, _)
RECURSIVE build_subfilters(_, _, _, _, _)
RECURSIVE build_filters_from(_, _, _, _, _)
RECURSIVE build_enumerated_fields_from(_, _, _, _, _)
RECURSIVE build_select(_, _)
RECURSIVE build_insert(_, _)
RECURSIVE build_update(_, _)
RECURSIVE build_delete(_, _)

\* for op in ops { if do_comma {w.commasp();} else {do_comma = true;}
\*                 self.build_operand(w, parent_query, op); }  from index i
build_operand_list(opts, w, parent_query, ops, i) ==
    IF w.panicked THEN w ELSE
    IF i > Len(ops) THEN w
    ELSE build_operand_list(opts,
            build_operand(opts, IF i > 1 THEN commasp(w) ELSE w, parent_query, ops[i]),
            parent_query, ops, i + 1)

\* mutation: the text of the nested query is put between parentheses
build_operand_query_in_parens(opts, w, q) ==
    IF w.panicked THEN w ELSE
    LET sql_frag == build_query(opts, q)
    IN  IF sql_frag.panicked THEN panic(w)
        ELSE append(append(append(w, <<"(">>), sql_frag.sql), <<")">>)

\* the Operand::Query arm: the nested query is compiled by build_query into
\* a fragment of its own and only the text of that fragment is appended.
build_operand_query(opts, w, q) ==
    IF w.panicked THEN w ELSE
    LET sql_frag == build_query(opts, q)
    IN  IF sql_frag.panicked THEN panic(w)
        ELSE append(w, sql_frag.sql)

\* mutation: a column is written bare whatever the joins of the parent query
build_operand_bare_column(opts, w, parent_query, operand) ==
    IF w.panicked THEN w ELSE
    CASE operand.kind = "ColumnName" -> append(w, <<operand.column_name.column>>)
      [] operand.kind = "TableName" ->
           IF UsesSchema \in opts
             THEN append(w, table_complete_name(operand.table_name))
             ELSE append(w, <<operand.table_name.name>>)
      [] operand.kind = "Function" ->
           append(build_operand_list(opts, append(w, <<"(">>), parent_query,
                                     operand.function.params, 1),
                  <<")">>)
      [] operand.kind = "Query" -> build_operand_query(opts, w, operand.query)
      [] operand.kind = "Value" -> parameter(w, operand.value)
      [] operand.kind = "Vec" ->
           IF operand.operands # <<>>
             THEN append(build_operand_list(opts, append(w, <<"(">>), parent_query,
                                            operand.operands, 1),
                         <<")">>)
             ELSE w

\* mutation: a table is written with its complete name whatever the profile
build_operand_complete_table(opts, w, parent_query, operand) ==
    IF w.panicked THEN w ELSE
    CASE operand.kind = "ColumnName" ->
           IF parent_query.joins = <<>>
             THEN append(w, <<operand.column_name.column>>)
             ELSE append(w, column_complete_name(operand.column_name))
      [] operand.kind = "TableName" -> append(w, table_complete_name(operand.table_name))
      [] operand.kind = "Function" ->
           append(build_operand_list(opts, append(w, <<"(">>), parent_query,
                                     operand.function.params, 1),
                  <<")">>)
      [] operand.kind = "Query" -> build_operand_query(opts, w, operand.query)
      [] operand.kind = "Value" -> parameter(w, operand.value)
      [] operand.kind = "Vec" ->
           IF operand.operands # <<>>
             THEN append(build_operand_list(opts, append(w, <<"(">>), parent_query,
                                            operand.operands, 1),
                         <<")">>)
             ELSE w

\* mutation: no test for an empty operand list, the parentheses are always written
build_operand_empty_parens(opts, w, parent_query, operand) ==
    IF w.panicked THEN w ELSE
    CASE operand.kind = "ColumnName" ->
           IF parent_query.joins = <<>>
             THEN append(w, <<operand.column_name.column>>)
             ELSE append(w, column_complete_name(operand.column_name))
      [] operand.kind = "TableName" ->
           IF UsesSchema \in opts
             THEN append(w, table_complete_name(operand.table_name))
             ELSE append(w, <<operand.table_name.name>>)
      [] operand.kind = "Function" ->
           append(build_operand_list(opts, append(w, <<"(">>), parent_query,
                                     operand.function.params, 1),
                  <<")">>)
      [] operand.kind = "Query" -> build_operand_query(opts, w, operand.query)
      [] operand.kind = "Value" -> parameter(w, operand.value)
      [] operand.kind = "Vec" ->
           append(build_operand_list(opts, append(w, <<"(">>), parent_query,
                                     operand.operands, 1),
                  <<")">>)

build_operand(opts, w, parent_query, operand) ==
    IF w.panicked THEN w ELSE
    CASE operand.kind = "ColumnName" ->
           IF parent_query.joins = <<>>
             THEN append(w, <<operand.column_name.column>>)
             ELSE append(w, column_complete_name(operand.column_name))
      [] operand.kind = "TableName" ->
           IF UsesSchema \in opts
             THEN append(w, table_complete_name(operand.table_name))
             ELSE append(w, <<operand.table_name.name>>)
      [] operand.kind = "Function" ->
           append(build_operand_list(opts, append(w, <<"(">>), parent_query,
                                     operand.function.params, 1),
                  <<")">>)
      [] operand.kind = "Query" -> build_operand_query(opts, w, operand.query)
      [] operand.kind = "Value" -> parameter(w, operand.value)
      [] operand.kind = "Vec" ->
           IF operand.operands # <<>>
             THEN append(build_operand_list(opts, append(w, <<"(">>), parent_query,
                                            operand.operands, 1),
                         <<")">>)
             ELSE w

equality_text(equality) ==
    CASE equality = "EQ" -> <<"= ">>
      [] equality = "NE" -> <<"!= ">>
      [] equality = "LT" -> <<"< ">>
      [] equality = "LTE" -> <<"<= ">>
      [] equality = "GT" -> <<"> ">>
      [] equality = "GTE" -> <<">= ">>
      [] equality = "IN" -> <<"IN ">>
      [] equality = "NOT_IN" -> <<"NOT IN ">>
      [] equality = "LIKE" -> <<"LIKE ">>
      [] equality = "NULL" -> <<"IS NULL ">>
      [] equality = "IS_NOT_NULL" -> <<"IS NOT NULL ">>
      [] equality = "IS_NULL" -> <<"IS NULL ">>

build_condition(opts, w, parent_query, cond) ==
    IF w.panicked THEN w ELSE
    build_operand(opts,
        append(append(build_operand(opts, w, parent_query, cond.left), <<" ">>),
               equality_text(cond.equality)),
        parent_query, cond.right)

build_field(opts, w, parent_query, field) ==
    IF w.panicked THEN w ELSE
    LET w1 == build_operand(opts, w, parent_query, field.operand)
    IN  IF field.name.some
          THEN append(append(w1, <<" AS ">>), <<field.name.val>>)
          ELSE w1

connector_text(connector) ==
    CASE connector = "And" -> <<"AND ">>
      [] connector = "Or" -> <<"OR ">>

\* for filt in &filter.subfilters { connector; self.build_filter(..) }  from index i
build_subfilters(opts, w, parent_query, subfilters, i) ==
    IF w.panicked THEN w ELSE
    IF i > Len(subfilters) THEN w
    ELSE build_subfilters(opts,
            build_filter(opts, append(w, connector_text(subfilters[i].connector)),
                         parent_query, subfilters[i]),
            parent_query, subfilters, i + 1)

\* mutation: the closing parenthesis only when there are several subfilters
build_filter_close_several(opts, w, parent_query, filter) ==
    IF w.panicked THEN w ELSE
    LET w1 == IF filter.subfilters # <<>> THEN append(w, <<"( ">>) ELSE w
        w2 == build_condition(opts, w1, parent_query, filter.condition)
        w3 == build_subfilters(opts, w2, parent_query, filter.subfilters, 1)
    IN  IF Len(filter.subfilters) > 1 THEN append(w3, <<" )">>) ELSE w3

build_filter(opts, w, parent_query, filter) ==
    IF w.panicked THEN w ELSE
    LET w1 == IF filter.subfilters # <<>> THEN append(w, <<"( ">>) ELSE w
        w2 == build_condition(opts, w1, parent_query, filter.condition)
        w3 == build_subfilters(opts, w2, parent_query, filter.subfilters, 1)
    IN  IF filter.subfilters # <<>> THEN append(w3, <<" )">>) ELSE w3

\* mutation: the filter's own connector between top-level filters
build_filters_from_own_connector(opts, w, parent_query, filters, i) ==
    IF w.panicked THEN w ELSE
    IF i > Len(filters) THEN w
    ELSE build_filters_from(opts,
            build_filter(opts,
                         IF i > 1 THEN append(ln_tabs(w, 2), connector_text(filters[i].connector))
                         ELSE w,
                         parent_query, filters[i]),
            parent_query, filters, i + 1)

\* the loop of build_filters from index i (do_and is i > 1)
build_filters_from(opts, w, parent_query, filters, i) ==
    IF w.panicked THEN w ELSE
    IF i > Len(filters) THEN w
    ELSE build_filters_from(opts,
            build_filter(opts,
                         IF i > 1 THEN append(ln_tabs(w, 2), <<"AND ">>) ELSE w,
                         parent_query, filters[i]),
            parent_query, filters, i + 1)

build_filters(opts, w, parent_query, filters) ==
    build_filters_from(opts, w, parent_query, filters, 1)

\* the loop of build_enumerated_fields from index i (cnt is i after cnt += 1)
build_enumerated_fields_from(opts, w, parent_query, enumerated_fields, i) ==
    IF w.panicked THEN w ELSE
    IF i > Len(enumerated_fields) THEN w
    ELSE LET w1 == IF i > 1 THEN commasp(w) ELSE w
             w2 == IF i % 4 = 0 THEN ln_tab(w1) ELSE w1
         IN  build_enumerated_fields_from(opts,
                build_field(opts, w2, parent_query, enumerated_fields[i]),
                parent_query, enumerated_fields, i + 1)

build_enumerated_fields(opts, w, parent_query, enumerated_fields) ==
    build_enumerated_fields_from(opts, w, parent_query, enumerated_fields, 1)

(***************************************************************************)
(* build_select, block by block.                                           *)
(***************************************************************************)
\* let mut w = SqlFrag::new(..); "SELECT ", the field list, " FROM "
build_select_fields(opts, q) ==
    append(ln(build_enumerated_fields(opts, append(new(opts), <<"SELECT ">>),
                                      q, q.enumerated_fields)),
           <<" FROM ">>)

\* assert!(query.from.is_some(), ..); then the from field
build_select_from(opts, w, q) ==
    IF w.panicked THEN w ELSE
    IF ~q.from.some THEN panic(w)
    ELSE build_field(opts, w, q, q.from.val)

modifier_text(modifier) ==
    CASE modifier = "LEFT" -> <<"LEFT ">>
      [] modifier = "RIGHT" -> <<"RIGHT ">>
      [] modifier = "FULL" -> <<"FULL ">>

join_type_text(join_type) ==
    CASE join_type = "CROSS" -> <<"CROSS ">>
      [] join_type = "INNER" -> <<"INNER ">>
      [] join_type = "OUTER" -> <<"OUTER ">>

\* for jc in &join.column1 { .. &join.column2[cnt] .. cnt += 1 }  from index i;
\* column2[cnt] panics when cnt is out of bounds
RECURSIVE build_join_columns(_, _, _)
\* mutation: cnt is never advanced, every equality takes the first right column
build_join_columns_first_right(w, join, i) ==
    IF w.panicked THEN w ELSE
    IF i > Len(join.column1) THEN w
    ELSE IF i > Len(join.column2) THEN panic(w)
    ELSE LET w1 == ln_tabs(w, 2)
             w2 == IF i > 1 THEN append(w1, <<"AND ">>) ELSE append(w1, <<"ON ">>)
         IN  build_join_columns(
                append(append(append(append(w2, <<join.column1[i]>>), <<" = ">>),
                              <<join.column2[1]>>), <<" ">>),
                join, i + 1)

build_join_columns(w, join, i) ==
    IF w.panicked THEN w ELSE
    IF i > Len(join.column1) THEN w
    ELSE IF i > Len(join.column2) THEN panic(w)
    ELSE LET w1 == ln_tabs(w, 2)
             w2 == IF i > 1 THEN append(w1, <<"AND ">>) ELSE append(w1, <<"ON ">>)
         IN  build_join_columns(
                append(append(append(append(w2, <<join.column1[i]>>), <<" = ">>),
                              <<join.column2[i]>>), <<" ">>),
                join, i + 1)

\* mutation: no assert! on the lengths of the column lists
build_join_no_assert(w, join) ==
    IF w.panicked THEN w ELSE
    LET w1 == ln_tab(w)
        w2 == IF join.modifier.some THEN append(w1, modifier_text(join.modifier.val)) ELSE w1
        w3 == append(w2, join_type_text(join.join_type))
        w4 == append(append(append(w3, <<"JOIN ">>), table_complete_name(join.table_name)),
                     <<" ">>)
    IN  build_join_columns(w4, join, 1)

\* one iteration of for join in &query.joins
build_join(w, join) ==
    IF w.panicked THEN w ELSE
    LET w1 == ln_tab(w)
        w2 == IF join.modifier.some THEN append(w1, modifier_text(join.modifier.val)) ELSE w1
        w3 == append(w2, join_type_text(join.join_type))
        w4 == append(append(append(w3, <<"JOIN ">>), table_complete_name(join.table_name)),
                     <<" ">>)
    IN  IF Len(join.column1) # Len(join.column2) THEN panic(w4)
        ELSE build_join_columns(w4, join, 1)

RECURSIVE build_joins(_, _, _)
build_joins(w, joins, i) ==
    IF w.panicked THEN w ELSE
    IF i > Len(joins) THEN w
    ELSE build_joins(build_join(w, joins[i]), joins, i + 1)

build_where(opts, w, q) ==
    IF w.panicked THEN w ELSE
    IF q.filters # <<>>
      THEN build_filters(opts, append(ln_tab(w), <<"WHERE ">>), q, q.filters)
      ELSE w

RECURSIVE build_group_by_from(_, _, _, _)
build_group_by_from(opts, w, q, i) ==
    IF w.panicked THEN w ELSE
    IF i > Len(q.group_by) THEN w
    ELSE build_group_by_from(opts,
            append(build_operand(opts, IF i > 1 THEN comma(w) ELSE w, q, q.group_by[i]),
                   <<" ">>),
            q, i + 1)

build_group_by(opts, w, q) ==
    IF w.panicked THEN w ELSE
    IF q.group_by # <<>>
      THEN build_group_by_from(opts, append(ln_tab(w), <<"GROUP BY ">>), q, 1)
      ELSE w

RECURSIVE build_having_from(_, _, _, _)
build_having_from(opts, w, q, i) ==
    IF w.panicked THEN w ELSE
    IF i > Len(q.having) THEN w
    ELSE build_having_from(opts,
            build_condition(opts, IF i > 1 THEN commasp(w) ELSE w, q, q.having[i]),
            q, i + 1)

build_having(opts, w, q) ==
    IF w.panicked THEN w ELSE
    IF q.having # <<>>
      THEN build_having_from(opts, append(ln_tab(w), <<"HAVING ">>), q, 1)
      ELSE w

direction_text(direction) ==
    CASE direction = "ASC" -> <<" ASC">>
      [] direction = "DESC" -> <<" DESC">>

RECURSIVE build_order_by_from(_, _, _)
build_order_by_from(w, q, i) ==
    IF w.panicked THEN w ELSE
    IF i > Len(q.order_by) THEN w
    ELSE build_order_by_from(
            append(append(IF i > 1 THEN commasp(w) ELSE w, <<q.order_by[i][1]>>),
                   direction_text(q.order_by[i][2])),
            q, i + 1)

build_order_by(w, q) ==
    IF w.panicked THEN w ELSE
    IF q.order_by # <<>>
      THEN build_order_by_from(append(ln_tab(w), <<"ORDER BY ">>), q, 1)
      ELSE w

\* match query.page_size { Some(page_size) => LIMIT .. }
build_limit(w, q) ==
    IF w.panicked THEN w ELSE
    IF q.page_size.some
      THEN append(append(ln_tab(w), <<"LIMIT ">>), fmt(q.page_size.val))
      ELSE w

\* mutation: the offset is the page, not page * page_size
build_offset_unscaled(w, q) ==
    IF w.panicked THEN w ELSE
    IF q.page.some
      THEN LET w1 == append(ln_tab(w), <<"OFFSET ">>)
           IN  IF ~q.page_size.some THEN panic(w1)
               ELSE append(w1, fmt(q.page.val))
      ELSE w

\* mutation: a missing page_size counts as 0 instead of failing
build_offset_default_size(w, q) ==
    IF w.panicked THEN w ELSE
    IF q.page.some
      THEN LET w1 == append(ln_tab(w), <<"OFFSET ">>)
           IN  IF ~q.page_size.some THEN append(w1, fmt(0))
               ELSE append(w1, fmt(q.page.val * q.page_size.val))
      ELSE w

\* match query.page { Some(page) => OFFSET, assert!(query.page_size.is_some()) .. }
build_offset(w, q) ==
    IF w.panicked THEN w ELSE
    IF q.page.some
      THEN LET w1 == append(ln_tab(w), <<"OFFSET ">>)
           IN  IF ~q.page_size.some THEN panic(w1)
               ELSE append(w1, fmt(q.page.val * q.page_size.val))
      ELSE w

\* mutation: the HAVING block before the GROUP BY block
build_select_having_first(opts, q) ==
    LET w1 == build_select_from(opts, build_select_fields(opts, q), q)
        w2 == IF q.joins # <<>> THEN build_joins(w1, q.joins, 1) ELSE w1
        w3 == build_where(opts, w2, q)
        w4 == build_having(opts, w3, q)
        w5 == build_group_by(opts, w4, q)
        w6 == build_order_by(w5, q)
    IN  build_offset(build_limit(w6, q), q)

build_select(opts, q) ==
    LET w1 == build_select_from(opts, build_select_fields(opts, q), q)
        w2 == IF q.joins # <<>> THEN build_joins(w1, q.joins, 1) ELSE w1
        w3 == build_where(opts, w2, q)
        w4 == build_group_by(opts, w3, q)
        w5 == build_having(opts, w4, q)
        w6 == build_order_by(w5, q)
    IN  build_offset(build_limit(w6, q), q)

(***************************************************************************)
(* build_insert                                                            *)
(***************************************************************************)
\* mutation: the placeholder style decides the qualification of the table
build_insert_into_wrong_flag(opts, q) ==
    LET w == append(new(opts), <<"INSERT INTO ">>)
        into_table == get_from_table(q)
    IN  IF ~into_table.some THEN panic(w)
        ELSE IF UsesNumberedParam \in opts
          THEN append(w, table_complete_name(into_table.val))
          ELSE append(w, <<into_table.val.name>>)

\* "INSERT INTO ", assert!(into_table.is_some(), ..), the table name
build_insert_into(opts, q) ==
    LET w == append(new(opts), <<"INSERT INTO ">>)
        into_table == get_from_table(q)
    IN  IF ~into_table.some THEN panic(w)
        ELSE IF UsesSchema \in opts
          THEN append(w, table_complete_name(into_table.val))
          ELSE append(w, <<into_table.val.name>>)

\* mutation: no assert! on the values, only the if that follows it
build_insert_values_no_assert(opts, w, q) ==
    IF w.panicked THEN w ELSE
    IF q.values = <<>> THEN w
    ELSE append(build_operand_list(opts, append(w, <<"VALUES( ">>), q, q.values, 1),
                <<") ">>)

\* assert!(!query.values.is_empty(), ..); "VALUES( " .. ") "
build_insert_values(opts, w, q) ==
    IF w.panicked THEN w ELSE
    IF q.values = <<>> THEN panic(w)
    ELSE append(build_operand_list(opts, append(w, <<"VALUES( ">>), q, q.values, 1),
                <<") ">>)

\* for field in &query.enumerated_returns { commasp; build_field }  from index i
RECURSIVE build_returns_from(_, _, _, _)
build_returns_from(opts, w, q, i) ==
    IF w.panicked THEN w ELSE
    IF i > Len(q.enumerated_returns) THEN w
    ELSE build_returns_from(opts,
            build_field(opts, IF i > 1 THEN commasp(w) ELSE w, q, q.enumerated_returns[i]),
            q, i + 1)

build_insert_returning(opts, w, q) ==
    IF w.panicked THEN w ELSE
    IF q.enumerated_returns # <<>> /\ SupportsReturningClause \in opts
      THEN build_returns_from(opts, append(w, <<"RETURNING ">>), q, 1)
      ELSE w

build_insert(opts, q) ==
    LET w1 == append(build_insert_into(opts, q), <<"(">>)
        w2 == append(build_enumerated_fields(opts, w1, q, q.enumerated_fields), <<") ">>)
        w3 == build_insert_values(opts, w2, q)
    IN  ln(build_insert_returning(opts, w3, q))

(***************************************************************************)
(* build_update                                                            *)
(***************************************************************************)
\* mutation: the target of UPDATE qualified by the profile, as that of INSERT
build_update_table_by_profile(opts, q) ==
    LET w == append(new(opts), <<"UPDATE ">>)
        from_table == get_from_table(q)
    IN  IF ~from_table.some THEN panic(w)
        ELSE ln(IF UsesSchema \in opts
                  THEN append(w, table_complete_name(from_table.val))
                  ELSE append(w, <<from_table.val.name>>))

\* "UPDATE ", assert!(from_table.is_some(), ..), the complete table name
build_update_table(opts, q) ==
    LET w == append(new(opts), <<"UPDATE ">>)
        from_table == get_from_table(q)
    IN  IF ~from_table.some THEN panic(w)
        ELSE ln(append(w, table_complete_name(from_table.val)))

\* for ec in &enumerated_columns { .. &query.values[column_index] .. }  from
\* index i; values[column_index] panics when the index is out of bounds
RECURSIVE build_update_set_from(_, _, _, _)
\* mutation: column_index is never advanced, every column takes the first value
build_update_set_from_first_value(w, q, enumerated_columns, i) ==
    IF w.panicked THEN w ELSE
    IF i > Len(enumerated_columns) THEN w
    ELSE LET w1 == IF i > 1 THEN commasp(w) ELSE w
             w2 == append(append(w1, <<enumerated_columns[i].column>>), <<" = ">>)
         IN  IF i > Len(q.values) THEN panic(w2)
             ELSE build_update_set_from(
                    IF q.values[1].kind = "Value" THEN parameter(w2, q.values[1].value)
                    ELSE w2,
                    q, enumerated_columns, i + 1)

\* mutation: the match on the value encloses the column and the equals sign
build_update_set_from_skip_column(w, q, enumerated_columns, i) ==
    IF w.panicked THEN w ELSE
    IF i > Len(enumerated_columns) THEN w
    ELSE IF i > Len(q.values) THEN panic(w)
    ELSE build_update_set_from(
            IF q.values[i].kind = "Value"
              THEN parameter(append(append(IF i > 1 THEN commasp(w) ELSE w,
                                           <<enumerated_columns[i].column>>), <<" = ">>),
                             q.values[i].value)
              ELSE w,
            q, enumerated_columns, i + 1)

\* mutation: values.get(column_index), a column without a value gets no value
build_update_set_from_checked_index(w, q, enumerated_columns, i) ==
    IF w.panicked THEN w ELSE
    IF i > Len(enumerated_columns) THEN w
    ELSE LET w1 == IF i > 1 THEN commasp(w) ELSE w
             w2 == append(append(w1, <<enumerated_columns[i].column>>), <<" = ">>)
         IN  build_update_set_from(
                IF i <= Len(q.values) /\ q.values[i].kind = "Value"
                  THEN parameter(w2, q.values[i].value)
                  ELSE w2,
                q, enumerated_columns, i + 1)

build_update_set_from(w, q, enumerated_columns, i) ==
    IF w.panicked THEN w ELSE
    IF i > Len(enumerated_columns) THEN w
    ELSE LET w1 == IF i > 1 THEN commasp(w) ELSE w
             w2 == append(append(w1, <<enumerated_columns[i].column>>), <<" = ">>)
         IN  IF i > Len(q.values) THEN panic(w2)
             ELSE build_update_set_from(
                    IF q.values[i].kind = "Value" THEN parameter(w2, q.values[i].value)
                    ELSE w2,
                    q, enumerated_columns, i + 1)

build_update_set(w, q) ==
    IF w.panicked THEN w ELSE
    LET enumerated_columns == get_enumerated_columns(q)
        w1 == IF enumerated_columns # <<>> THEN append(w, <<"SET ">>) ELSE w
    IN  build_update_set_from(w1, q, enumerated_columns, 1)

\* mutation: RETURNING whatever the profile supports
build_update_returning_any_profile(opts, w, q) ==
    IF w.panicked THEN w ELSE
    IF q.enumerated_returns # <<>>
      THEN build_returns_from(opts, append(w, <<"RETURNING ">>), q, 1)
      ELSE w

build_update_returning(opts, w, q) ==
    IF w.panicked THEN w ELSE
    IF q.enumerated_returns # <<>> /\ SupportsReturningClause \in opts
      THEN build_returns_from(opts, append(w, <<"RETURNING ">>), q, 1)
      ELSE w

build_update(opts, q) ==
    build_update_returning(opts,
        build_where(opts, build_update_set(build_update_table(opts, q), q), q), q)

(***************************************************************************)
(* build_delete                                                            *)
(***************************************************************************)
\* mutation: no assert! on the table, only the if that follows it
build_delete_table_no_assert(opts, q) ==
    LET w == append(new(opts), <<"DELETE FROM ">>)
        from_table == get_from_table(q)
    IN  IF ~from_table.some THEN w
        ELSE append(w, table_complete_name(from_table.val))

build_delete_table(opts, q) ==
    LET w == append(new(opts), <<"DELETE FROM ">>)
        from_table == get_from_table(q)
    IN  IF ~from_table.some THEN panic(w)
        ELSE append(w, table_complete_name(from_table.val))

build_delete(opts, q) ==
    build_where(opts, build_delete_table(opts, q), q)

(***************************************************************************)
(* build_query                                                             *)
(***************************************************************************)
build_query(opts, q) ==
    CASE q.sql_type = "SELECT" -> build_select(opts, q)
      [] q.sql_type = "INSERT" -> build_insert(opts, q)
      [] q.sql_type = "UPDATE" -> build_update(opts, q)
      [] q.sql_type = "DELETE" -> build_delete(opts, q)

(***************************************************************************)
(* The builders block by block.  Every builder is straight-line code over  *)
(* its local writer w: block 1 creates the writer (SqlFrag::new), every    *)
(* later block appends to it.  A compilation that runs beside another one  *)
(* is the sequence of its blocks.                                          *)
(***************************************************************************)
\* mutation: the writer is a field that the first block does not renew
select_step_stale_writer(opts, w, q, k) ==
    CASE k = 1 -> append(ln(build_enumerated_fields(opts, append(w, <<"SELECT ">>),
                                                    q, q.enumerated_fields)),
                         <<" FROM ">>)
      [] k = 2 -> build_select_from(opts, w, q)
      [] k = 3 -> IF q.joins # <<>> THEN build_joins(w, q.joins, 1) ELSE w
      [] k = 4 -> build_where(opts, w, q)
      [] k = 5 -> build_group_by(opts, w, q)
      [] k = 6 -> build_having(opts, w, q)
      [] k = 7 -> build_order_by(w, q)
      [] k = 8 -> build_limit(w, q)
      [] k = 9 -> build_offset(w, q)

\* mutation: one writer for all compilations, that of the first thread
select_step_shared_writer(opts, w, q, k) ==
    CASE k = 1 -> build_select_fields(opts, q)
      [] k = 2 -> build_select_from(opts, threads[1].w, q)
      [] k = 3 -> IF q.joins # <<>> THEN build_joins(threads[1].w, q.joins, 1) ELSE threads[1].w
      [] k = 4 -> build_where(opts, threads[1].w, q)
      [] k = 5 -> build_group_by(opts, threads[1].w, q)
      [] k = 6 -> build_having(opts, threads[1].w, q)
      [] k = 7 -> build_order_by(threads[1].w, q)
      [] k = 8 -> build_limit(threads[1].w, q)
      [] k = 9 -> build_offset(threads[1].w, q)

\* build_select: block k of 9 on the writer w
select_step(opts, w, q, k) ==
    CASE k = 1 -> build_select_fields(opts, q)
      [] k = 2 -> build_select_from(opts, w, q)
      [] k = 3 -> IF q.joins # <<>> THEN build_joins(w, q.joins, 1) ELSE w
      [] k = 4 -> build_where(opts, w, q)
      [] k = 5 -> build_group_by(opts, w, q)
      [] k = 6 -> build_having(opts, w, q)
      [] k = 7 -> build_order_by(w, q)
      [] k = 8 -> build_limit(w, q)
      [] k = 9 -> build_offset(w, q)

\* build_insert: block k of 4
insert_step(opts, w, q, k) ==
    CASE k = 1 -> build_insert_into(opts, q)
      [] k = 2 -> append(build_enumerated_fields(opts, append(w, <<"(">>), q,
                                                 q.enumerated_fields),
                         <<") ">>)
      [] k = 3 -> build_insert_values(opts, w, q)
      [] k = 4 -> ln(build_insert_returning(opts, w, q))

\* build_update: block k of 4
update_step(opts, w, q, k) ==
    CASE k = 1 -> build_update_table(opts, q)
      [] k = 2 -> build_update_set(w, q)
      [] k = 3 -> build_where(opts, w, q)
      [] k = 4 -> build_update_returning(opts, w, q)

\* build_delete: block k of 2
delete_step(opts, w, q, k) ==
    CASE k = 1 -> build_delete_table(opts, q)
      [] k = 2 -> build_where(opts, w, q)

\* the number of blocks of the builder of a statement kind
last_step(sql_type) ==
    CASE sql_type = "SELECT" -> 9
      [] sql_type = "INSERT" -> 4
      [] sql_type = "UPDATE" -> 4
      [] sql_type = "DELETE" -> 2

(***************************************************************************)
(* The Query AST (query::Operand, Field, Condition, Filter, Join, Query).  *)
(***************************************************************************)
ColumnName(t, c) == [kind |-> "ColumnName", column_name |-> [table |-> t, column |-> c]]
TableName(s, n) == [kind |-> "TableName", table_name |-> [schema |-> s, name |-> n]]
Function(f, ps) == [kind |-> "Function", function |-> [function |-> f, params |-> ps]]
QueryOperand(q) == [kind |-> "Query", query |-> q]
Value(v) == [kind |-> "Value", value |-> v]
Vec(ops) == [kind |-> "Vec", operands |-> ops]

Field(op, alias) == [operand |-> op, name |-> alias]

Condition(l, e, r) == [left |-> l, equality |-> e, right |-> r]

Filter(c, cond, subs) == [connector |-> c, condition |-> cond, subfilters |-> subs]

Join(m, jt, t, c1, c2) ==
    [modifier |-> m, join_type |-> jt, table_name |-> t, column1 |-> c1, column2 |-> c2]

Query(t, fields, from, joins, filters, group_by, having, order_by, page, size, values, returns) ==
    [sql_type |-> t, enumerated_fields |-> fields, from |-> from, joins |-> joins,
     filters |-> filters, group_by |-> group_by, having |-> having,
     order_by |-> order_by, page |-> page, page_size |-> size,
     values |-> values, enumerated_returns |-> returns]

(***************************************************************************)
(* The queries the model compiles.                                         *)
(***************************************************************************)
Values == 1 .. MaxVal

ColA == ColumnName("t", "a")
ColB == ColumnName("t", "b")
ColC == ColumnName("u", "c")

FromT == Some(Field(TableName("s", "t"), None))
FromU == Some(Field(TableName("s", "u"), None))

Leaf(col, e, r) == Filter("And", Condition(col, e, r), <<>>)

JoinColumns1 == <<"t.a", "t.b">>
JoinColumns2 == <<"u.a", "u.b">>

JoinOn(m, n1, n2) ==
    Join(m, "INNER", [schema |-> "s", name |-> "u"],
         SubSeq(JoinColumns1, 1, n1), SubSeq(JoinColumns2, 1, n2))

SelectFrom(from, filters) ==
    Query("SELECT", <<Field(ColC, None)>>, from, <<>>, filters, <<>>, <<>>, <<>>,
          None, None, <<>>, <<>>)

\* the sub-queries used as operands, nested at most d deep
RECURSIVE SubQueries(_)
SubQueries(d) ==
    IF d = 0 THEN {}
    ELSE { SelectFrom(FromU, <<Leaf(ColC, "EQ", Value(MaxVal))>>),
           SelectFrom(FromU, <<Leaf(ColC, "EQ", Value(1)), Leaf(ColA, "LT", Value(MaxVal))>>),
           SelectFrom(None, <<>>),
           [SelectFrom(FromU, <<Leaf(ColC, "NE", Value(1))>>) EXCEPT !.joins = <<JoinOn(None, 1, 1)>>] }
         \cup { SelectFrom(FromU, <<Leaf(ColC, "IN", QueryOperand(s))>>) : s \in SubQueries(d - 1) }

SubQueryOperands == { QueryOperand(s) : s \in SubQueries(MaxDepth) }

\* the filters a top-level list is drawn from
LeafFilters ==
    { Leaf(ColA, "EQ", Value(v)) : v \in Values }
    \cup { Leaf(ColB, "IN", Vec(<<Value(1), Value(MaxVal)>>)),
           Leaf(ColB, "NOT_IN", Vec(<<>>)),
           Leaf(ColB, "IN", Vec(<<ColA, Value(1)>>)),
           Leaf(ColA, "IS_NULL", Value(1)),
           Leaf(Function("lower", <<ColA>>), "LIKE", Value(1)) }
    \cup { Leaf(ColA, "IN", op) : op \in SubQueryOperands }

TreeFilters ==
    { Filter("And", Condition(ColA, "EQ", Value(1)),
             <<Filter("Or", Condition(ColB, "GT", Value(MaxVal)), <<>>)>>),
      Filter("Or", Condition(ColA, "NE", Value(MaxVal)),
             <<Filter("And", Condition(ColB, "LTE", Value(1)), <<>>),
               Filter("Or", Condition(ColA, "GTE", Value(1)),
                      <<Filter("And", Condition(ColB, "EQ", Value(MaxVal)), <<>>)>>)>>) }
    \cup { Filter("And", Condition(ColB, "EQ", Value(1)),
                  <<Filter("Or", Condition(ColA, "IN", op), <<>>)>>) : op \in SubQueryOperands }

Filters == LeafFilters \cup TreeFilters

\* the filters in a fixed order, to draw lists of consecutive filters from
RECURSIVE SeqOf(_)
SeqOf(S) == IF S = {} THEN <<>>
            ELSE LET x == CHOOSE y \in S : TRUE IN <<x>> \o SeqOf(S \ {x})

FilterPool == SeqOf(Filters)

Window(pool, i, n) == [k \in 1 .. n |-> pool[((i + k - 2) % Len(pool)) + 1]]

FilterLists == { Window(FilterPool, i, n) : i \in 1 .. Len(FilterPool), n \in 0 .. MaxFilters }

SomeFilterLists == { Window(FilterPool, i, n) : i \in 1 .. Len(FilterPool), n \in 0 .. 1 }

FieldLists ==
    { <<Field(ColA, None)>>,
      <<Field(ColA, Some("x")), Field(Function("coalesce", <<ColB, Value(MaxVal)>>), None),
        Field(ColB, None), Field(ColC, None), Field(ColC, Some("y"))>> }

JoinLists ==
    { <<>>, <<JoinOn(None, 1, 1)>>, <<JoinOn(Some("LEFT"), 2, 2), JoinOn(None, 1, 1)>>,
      <<JoinOn(None, 2, 1)>>, <<JoinOn(None, 1, 2)>>, <<JoinOn(None, 1, 1), JoinOn(None, 0, 1)>> }

GroupBys == { <<>>, <<ColA, ColB>> }

Havings ==
    { <<>>, <<Condition(Function("count", <<ColA>>), "GT", Value(MaxVal)),
              Condition(ColB, "LT", Value(1))>> }

OrderBys == { <<>>, <<<<"t.a", "ASC">>, <<"t.b", "DESC">>>> }

Pages == {None} \cup { Some(p) : p \in 0 .. MaxPage }

PageSizes == {None, Some(1), Some(MaxPageSize)}

Froms == {None, FromT}

RECURSIVE ValueSeq(_)
ValueSeq(n) == IF n = 0 THEN <<>> ELSE Append(ValueSeq(n - 1), Value(n))

ValueLists ==
    { ValueSeq(n) : n \in 0 .. MaxVal }
    \cup { <<Value(1), Function("now", <<>>)>>, <<ColB, Value(MaxVal)>> }
    \cup { <<Value(1), op, Value(MaxVal)>> : op \in SubQueryOperands }

ColumnLists ==
    { <<>>, <<Field(ColA, None)>>, <<Field(ColA, None), Field(ColB, None)>> }

ReturnLists == { <<>>, <<Field(ColA, None), Field(Value(MaxVal), Some("r"))>> }

SelectQueries ==
    { Query("SELECT", fields, FromT, joins, filters, group_by, having, order_by,
            paging[1], paging[2], <<>>, <<>>) :
        fields \in FieldLists, joins \in {<<>>, <<JoinOn(Some("LEFT"), 2, 2)>>},
        filters \in FilterLists, group_by \in GroupBys, having \in Havings,
        order_by \in OrderBys, paging \in {<<None, None>>, <<Some(MaxPage), Some(MaxPageSize)>>} }
    \cup
    { Query("SELECT", <<Field(ColA, None)>>, from, joins, filters, <<>>, <<>>, <<>>,
            page, page_size, <<>>, <<>>) :
        from \in Froms, joins \in JoinLists, filters \in {<<>>, <<Leaf(ColA, "EQ", Value(1))>>},
        page \in Pages, page_size \in PageSizes }

InsertQueries ==
    { Query("INSERT", fields, from, <<>>, <<>>, <<>>, <<>>, <<>>, None, None, values, returns) :
        fields \in ColumnLists, from \in Froms, values \in ValueLists, returns \in ReturnLists }

UpdateQueries ==
    { Query("UPDATE", fields, from, <<>>, filters, <<>>, <<>>, <<>>, None, None, values, returns) :
        fields \in ColumnLists, from \in Froms, filters \in SomeFilterLists,
        values \in ValueLists, returns \in ReturnLists }

DeleteQueries ==
    { Query("DELETE", <<>>, from, <<>>, filters, <<>>, <<>>, <<>>, None, None, <<>>, <<>>) :
        from \in Froms, filters \in FilterLists }

Queries == SelectQueries \cup InsertQueries \cup UpdateQueries \cup DeleteQueries

\* every profile has one placeholder style
Profiles ==
    { {style} \cup caps : style \in {UsesNumberedParam, UsesQuestionMark},
                          caps \in SUBSET {SupportsReturningClause, UsesSchema} }

(***************************************************************************)
(* The state machine: the caller's query, the database's profile, and the  *)
(* outcome of the one call of build_query.                                 *)
(***************************************************************************)
Returned(frag) == Some([sql |-> frag.sql, params |-> frag.params])

Init ==
    /\ query \in Queries
    /\ sql_options \in Profiles
    /\ pc = "ready"
    /\ result = None
    /\ threads = <<>>

\* what the caller gets: the fragment, or nothing when the builder panicked
Return(frag) ==
    IF frag.panicked
      THEN pc' = "panicked" /\ result' = None
      ELSE pc' = "returned" /\ result' = Returned(frag)

\* build_query, one action per arm of its match
BuildSelect ==
    /\ pc = "ready"
    /\ query.sql_type = "SELECT"
    /\ Return(build_query(sql_options, query))
    /\ UNCHANGED <<query, sql_options, threads>>

BuildInsert ==
    /\ pc = "ready"
    /\ query.sql_type = "INSERT"
    /\ Return(build_query(sql_options, query))
    /\ UNCHANGED <<query, sql_options, threads>>

BuildUpdate ==
    /\ pc = "ready"
    /\ query.sql_type = "UPDATE"
    /\ Return(build_query(sql_options, query))
    /\ UNCHANGED <<query, sql_options, threads>>

BuildDelete ==
    /\ pc = "ready"
    /\ query.sql_type = "DELETE"
    /\ Return(build_query(sql_options, query))
    /\ UNCHANGED <<query, sql_options, threads>>

Next == BuildSelect \/ BuildInsert \/ BuildUpdate \/ BuildDelete

Spec == Init /\ [][Next]_vars

(***************************************************************************)
(* Two compilations side by side.  Each thread owns a database of the same *)
(* profile and the writer its builder created (let mut w), runs the blocks *)
(* of its builder in order, and may compile its query a second time after  *)
(* it returned.  The scheduler interleaves the blocks of the two threads   *)
(* in any order.                                                           *)
(***************************************************************************)
Threads == {1, 2}

ThreadQueries ==
    { Query("SELECT", <<Field(ColA, None), Field(Value(1), Some("x"))>>, FromT,
            <<JoinOn(Some("LEFT"), 2, 2)>>, <<Leaf(ColA, "EQ", Value(MaxVal))>>, <<ColA>>,
            <<Condition(Function("count", <<ColA>>), "GT", Value(MaxVal))>>,
            <<<<"t.a", "ASC">>>>, Some(MaxPage), Some(MaxPageSize), <<>>, <<>>),
      Query("SELECT", <<Field(ColB, None)>>, FromT, <<>>,
            <<Leaf(ColA, "IN", QueryOperand(SelectFrom(FromU, <<Leaf(ColC, "EQ", Value(1))>>)))>>,
            <<>>, <<>>, <<>>, None, None, <<>>, <<>>),
      Query("SELECT", <<Field(ColA, None)>>, FromT, <<>>, <<Leaf(ColB, "LT", Value(1))>>,
            <<>>, <<>>, <<>>, Some(MaxPage), None, <<>>, <<>>),
      Query("INSERT", <<Field(ColA, None), Field(ColB, None)>>, FromT, <<>>, <<>>, <<>>, <<>>,
            <<>>, None, None, <<Value(1), Value(MaxVal)>>, <<Field(ColA, None)>>),
      Query("UPDATE", <<Field(ColA, None)>>, FromT, <<>>, <<Leaf(ColB, "EQ", Value(1))>>, <<>>,
            <<>>, <<>>, None, None, <<Value(MaxVal)>>, <<Field(Value(1), Some("r"))>>),
      Query("DELETE", <<>>, FromT, <<>>, <<Leaf(ColA, "NE", Value(MaxVal))>>, <<>>, <<>>, <<>>,
            None, None, <<>>, <<>>),
      Query("DELETE", <<>>, None, <<>>, <<>>, <<>>, <<>>, <<>>, None, None, <<>>, <<>>) }

ThreadProfiles ==
    { {UsesNumberedParam, SupportsReturningClause, UsesSchema}, {UsesQuestionMark} }

\* a thread about to run the first block of the builder of q
Started(opts, q) ==
    [query |-> q, step |-> 1, w |-> new(opts), pc |-> "running", result |-> None,
     previous |-> None]

InitThreads ==
    /\ sql_options \in ThreadProfiles
    /\ threads \in [Threads -> { Started(sql_options, q) : q \in ThreadQueries }]
    /\ query = None
    /\ pc = "threads"
    /\ result = None

\* the thread after a block left the writer w: unwinding on a panic, the
\* fragment returned after the last block, the next block otherwise
After(thread, w) ==
    IF w.panicked THEN [thread EXCEPT !.w = w, !.pc = "panicked"]
    ELSE IF thread.step = last_step(thread.query.sql_type)
      THEN [thread EXCEPT !.w = w, !.pc = "returned", !.result = Returned(w)]
      ELSE [thread EXCEPT !.w = w, !.step = @ + 1]

StepSelect(t) ==
    /\ threads[t].pc = "running"
    /\ threads[t].query.sql_type = "SELECT"
    /\ threads' = [threads EXCEPT ![t] =
            After(@, select_step(sql_options, @.w, @.query, @.step))]
    /\ UNCHANGED <<query, sql_options, pc, result>>

StepInsert(t) ==
    /\ threads[t].pc = "running"
    /\ threads[t].query.sql_type = "INSERT"
    /\ threads' = [threads EXCEPT ![t] =
            After(@, insert_step(sql_options, @.w, @.query, @.step))]
    /\ UNCHANGED <<query, sql_options, pc, result>>

StepUpdate(t) ==
    /\ threads[t].pc = "running"
    /\ threads[t].query.sql_type = "UPDATE"
    /\ threads' = [threads EXCEPT ![t] =
            After(@, update_step(sql_options, @.w, @.query, @.step))]
    /\ UNCHANGED <<query, sql_options, pc, result>>

StepDelete(t) ==
    /\ threads[t].pc = "running"
    /\ threads[t].query.sql_type = "DELETE"
    /\ threads' = [threads EXCEPT ![t] =
            After(@, delete_step(sql_options, @.w, @.query, @.step))]
    /\ UNCHANGED <<query, sql_options, pc, result>>

\* the caller keeps the fragment and calls build_query on the same query again
Recompile(t) ==
    /\ threads[t].pc = "returned"
    /\ ~threads[t].previous.some
    /\ threads' = [threads EXCEPT ![t] =
            [@ EXCEPT !.previous = threads[t].result, !.result = None, !.step = 1,
                      !.pc = "running"]]
    /\ UNCHANGED <<query, sql_options, pc, result>>

NextThreads ==
    \E t \in Threads :
        StepSelect(t) \/ StepInsert(t) \/ StepUpdate(t) \/ StepDelete(t) \/ Recompile(t)

SpecThreads == InitThreads /\ [][NextThreads]_vars

(***************************************************************************)
(* Reading the returned text.                                              *)
(***************************************************************************)
Digits == { Digit[k] : k \in 1 .. 10 }

DigitValue(tok) == CHOOSE d \in 0 .. 9 : Digit[d + 1] = tok

\* the number written from position i on, read digit by digit
RECURSIVE NumberAt(_, _, _)
NumberAt(text, i, acc) ==
    IF i <= Len(text) /\ text[i] \in Digits
      THEN NumberAt(text, i + 1, acc * 10 + DigitValue(text[i]))
      ELSE acc

Positions(text, toks) == { i \in DOMAIN text : text[i] \in toks }

PlaceholderPositions(text) == Positions(text, {"$", "?"})

\* the digits of a numbered placeholder
RECURSIVE InPlaceholder(_, _)
InPlaceholder(text, i) ==
    /\ i > 1
    /\ text[i] \in Digits
    /\ \/ text[i - 1] = "$"
       \/ InPlaceholder(text, i - 1)

\* the text with every $n replaced by ? (no token of a text is empty)
Unnumber(text) ==
    LET marked == [i \in DOMAIN text |->
                      IF InPlaceholder(text, i) THEN ""
                      ELSE IF text[i] = "$" THEN "?" ELSE text[i]]
    IN  SelectSeq(marked, LAMBDA tok : tok # "")

Opening == {"(", "( ", "VALUES( "}
Closing == {")", " )", ") "}

\* the number of parentheses open before position i
ParenDepth(text, i) ==
    Cardinality({ j \in 1 .. i - 1 : text[j] \in Opening })
    - Cardinality({ j \in 1 .. i - 1 : text[j] \in Closing })

\* the occurrences of tok outside every pair of parentheses
TopLevel(text, tok) == { i \in Positions(text, {tok}) : ParenDepth(text, i) = 0 }

\* F(s[1]) \o F(s[2]) \o ..
ConcatMap(F(_), s) ==
    LET R[i \in 0 .. Len(s)] == IF i = 0 THEN <<>> ELSE R[i - 1] \o F(s[i])
    IN  R[Len(s)]

(***************************************************************************)
(* The literal operands of a query in the order the statement renders      *)
(* them, those of its sub-query operands included.                         *)
(***************************************************************************)
RECURSIVE LiteralsOfOperand(_, _)
RECURSIVE LiteralsOfFilter(_, _)
RECURSIVE LiteralsOfQuery(_, _)

LiteralsOfOperand(opts, operand) ==
    CASE operand.kind = "Value" -> <<operand.value>>
      [] operand.kind = "Function" ->
           ConcatMap(LAMBDA o : LiteralsOfOperand(opts, o), operand.function.params)
      [] operand.kind = "Vec" ->
           ConcatMap(LAMBDA o : LiteralsOfOperand(opts, o), operand.operands)
      [] operand.kind = "Query" -> LiteralsOfQuery(opts, operand.query)
      [] OTHER -> <<>>

LiteralsOfCondition(opts, cond) ==
    LiteralsOfOperand(opts, cond.left) \o LiteralsOfOperand(opts, cond.right)

LiteralsOfFilter(opts, filter) ==
    LiteralsOfCondition(opts, filter.condition)
    \o ConcatMap(LAMBDA f : LiteralsOfFilter(opts, f), filter.subfilters)

LiteralsOfFields(opts, fields) ==
    ConcatMap(LAMBDA f : LiteralsOfOperand(opts, f.operand), fields)

LiteralsOfReturning(opts, q) ==
    IF SupportsReturningClause \in opts THEN LiteralsOfFields(opts, q.enumerated_returns)
    ELSE <<>>

LiteralsOfQuery(opts, q) ==
    LET where == ConcatMap(LAMBDA f : LiteralsOfFilter(opts, f), q.filters)
    IN  CASE q.sql_type = "SELECT" ->
               LiteralsOfFields(opts, q.enumerated_fields)
               \o LiteralsOfFields(opts, <<q.from.val>>)
               \o where
               \o ConcatMap(LAMBDA o : LiteralsOfOperand(opts, o), q.group_by)
               \o ConcatMap(LAMBDA c : LiteralsOfCondition(opts, c), q.having)
          [] q.sql_type = "INSERT" ->
               LiteralsOfFields(opts, q.enumerated_fields)
               \o ConcatMap(LAMBDA o : LiteralsOfOperand(opts, o), q.values)
               \o LiteralsOfReturning(opts, q)
          [] q.sql_type = "UPDATE" ->
               ConcatMap(LAMBDA o : IF o.kind = "Value" THEN <<o.value>> ELSE <<>>,
                         SubSeq(q.values, 1, Len(get_enumerated_columns(q))))
               \o where
               \o LiteralsOfReturning(opts, q)
          [] q.sql_type = "DELETE" -> where

(***************************************************************************)
(* C1: every returned fragment has one parameter per placeholder of its    *)
(* text, the i-th parameter being the value of the literal operand that    *)
(* produced the i-th placeholder, sub-query operands included.             *)
(***************************************************************************)
C1_ParamsMatchPlaceholders ==
    pc = "returned" =>
        /\ Cardinality(PlaceholderPositions(result.val.sql)) = Len(result.val.params)
        /\ result.val.params = LiteralsOfQuery(sql_options, query)

(***************************************************************************)
(* C2: under the numbered-placeholder profile the placeholders of a        *)
(* returned text read $1, $2, .., $m from left to right, sub-query         *)
(* operands included.                                                      *)
(***************************************************************************)
C2_NumberedSequential ==
    (pc = "returned" /\ UsesNumberedParam \in sql_options) =>
        LET sql == result.val.sql
            P == Positions(sql, {"$"})
        IN  \A i \in P : NumberAt(sql, i + 1, 0) = Cardinality({ j \in P : j <= i })

(***************************************************************************)
(* C3: the numbered and the question-mark profile (other flags equal)      *)
(* give the same structure: the same text once every $n is replaced by ?,  *)
(* the same parameters, and a panic under one is a panic under the other.  *)
(***************************************************************************)
OtherStyle(opts) ==
    IF UsesNumberedParam \in opts
      THEN (opts \ {UsesNumberedParam}) \cup {UsesQuestionMark}
      ELSE (opts \ {UsesQuestionMark}) \cup {UsesNumberedParam}

C3_SameStructure ==
    pc # "ready" =>
        LET other == build_query(OtherStyle(sql_options), query)
        IN  /\ other.panicked <=> pc = "panicked"
            /\ pc = "returned" =>
                 /\ Unnumber(result.val.sql) = Unnumber(other.sql)
                 /\ result.val.params = other.params

C3_Witness ==
    /\ pc = "returned"
    /\ UsesNumberedParam \in sql_options
    /\ Len(result.val.params) >= 3
    /\ Cardinality(Positions(result.val.sql, {"SELECT "})) >= 2
    /\ Positions(build_query(OtherStyle(sql_options), query).sql, {"$"}) = {}

(***************************************************************************)
(* C4: the WHERE clause build_filters emits for n >= 1 top-level filters   *)
(* has exactly n-1 AND and no OR outside every pair of parentheses; with   *)
(* n = 0 no WHERE clause is emitted.                                       *)
(***************************************************************************)
WhereClause == build_filters(sql_options, new(sql_options), query, query.filters)

TopLevelConnectors ==
    /\ Cardinality(TopLevel(WhereClause.sql, "AND ")) = Len(query.filters) - 1
    /\ TopLevel(WhereClause.sql, "OR ") = {}

NoWhereWithoutFilters ==
    query.filters = <<>> => Positions(result.val.sql, {"WHERE "}) = {}

C4_TopLevelAnd ==
    (pc = "returned" /\ query.sql_type \in {"SELECT", "UPDATE", "DELETE"}) =>
        /\ query.filters # <<>> => TopLevelConnectors
        /\ NoWhereWithoutFilters

\* a top-level filter without subfilters whose condition has a sub-query as
\* its left or right operand: the text of the sub-query is spliced outside
\* every pair of parentheses
BareSubQuery(filters) ==
    \E i \in DOMAIN filters :
        /\ filters[i].subfilters = <<>>
        /\ "Query" \in {filters[i].condition.left.kind, filters[i].condition.right.kind}

\* C4 as amended: the same, for filter lists without such a filter
C4_TopLevelAnd_Amended ==
    (pc = "returned" /\ query.sql_type \in {"SELECT", "UPDATE", "DELETE"}) =>
        /\ (query.filters # <<>> /\ ~BareSubQuery(query.filters)) => TopLevelConnectors
        /\ NoWhereWithoutFilters

C4_Witness ==
    /\ pc = "returned"
    /\ Len(query.filters) >= 2
    /\ ~BareSubQuery(query.filters)
    /\ \E i \in DOMAIN query.filters :
          \E k \in DOMAIN query.filters[i].subfilters :
              /\ query.filters[i].subfilters[k].connector = "Or"
              /\ query.filters[i].subfilters[k].condition.right.kind = "Query"
    /\ Positions(WhereClause.sql, {"OR "}) # {}

(***************************************************************************)
(* C5: build_filter wraps a node in parentheses iff the node has           *)
(* subfilters; the pair encloses the node's condition followed by its      *)
(* subfilters in list order, each preceded by its connector; a node        *)
(* without subfilters emits its condition only.  (Texts are compared with  *)
(* their placeholders unnumbered: a subfilter rendered inside its parent   *)
(* continues the parent's numbering.)                                      *)
(***************************************************************************)
RECURSIVE FilterNodes(_)
FilterNodes(filter) ==
    {filter} \cup UNION { FilterNodes(filter.subfilters[k]) : k \in DOMAIN filter.subfilters }

QueryFilterNodes == UNION { FilterNodes(query.filters[i]) : i \in DOMAIN query.filters }

FilterText(filter) == build_filter(sql_options, new(sql_options), query, filter)

ConditionText(cond) == build_condition(sql_options, new(sql_options), query, cond)

NodeShape(filter) ==
    IF filter.subfilters = <<>>
      THEN Unnumber(FilterText(filter).sql) = Unnumber(ConditionText(filter.condition).sql)
      ELSE Unnumber(FilterText(filter).sql) =
             <<"( ">>
             \o Unnumber(ConditionText(filter.condition).sql)
             \o ConcatMap(LAMBDA sub : (IF sub.connector = "And" THEN <<"AND ">> ELSE <<"OR ">>)
                                       \o Unnumber(FilterText(sub).sql),
                          filter.subfilters)
             \o <<" )">>

C5_Parentheses ==
    pc = "returned" =>
        \A filter \in QueryFilterNodes :
            /\ ~FilterText(filter).panicked
            /\ NodeShape(filter)
            /\ (filter.subfilters # <<>>) <=> (FilterText(filter).sql[1] = "( ")

C5_Witness ==
    /\ pc = "returned"
    /\ \E filter \in QueryFilterNodes :
          /\ Len(filter.subfilters) >= 2
          /\ \E k \in DOMAIN filter.subfilters : filter.subfilters[k].subfilters # <<>>
          /\ \E k \in DOMAIN filter.subfilters : filter.subfilters[k].subfilters = <<>>
    /\ UsesNumberedParam \in sql_options

(***************************************************************************)
(* C6: a query of any statement kind without from is fatal: the builder    *)
(* panics and the caller gets no fragment.                                 *)
(***************************************************************************)
C6_MissingFromIsFatal ==
    (pc # "ready" /\ ~query.from.some) => (pc = "panicked" /\ result = None)

C6_Witness ==
    /\ pc = "panicked"
    /\ ~query.from.some
    /\ query.sql_type = "DELETE"
    /\ query.filters # <<>>

(***************************************************************************)
(* C7: a returned SELECT has LIMIT page_size when page_size is present,    *)
(* followed by OFFSET page * page_size when page is present too, no OFFSET *)
(* when page is absent, and neither clause when both are absent.           *)
(***************************************************************************)
\* the clause keyword occurs once and the number written after it is n
ClauseWithNumber(sql, keyword, n) ==
    \E i \in Positions(sql, {keyword}) :
        /\ Positions(sql, {keyword}) = {i}
        /\ i < Len(sql)
        /\ sql[i + 1] \in Digits
        /\ NumberAt(sql, i + 1, 0) = n

C7_Paging ==
    (pc = "returned" /\ query.sql_type = "SELECT") =>
        LET sql == result.val.sql
        IN  /\ query.page_size.some =>
                 ClauseWithNumber(sql, "LIMIT ", query.page_size.val)
            /\ (query.page_size.some /\ query.page.some) =>
                 /\ ClauseWithNumber(sql, "OFFSET ", query.page.val * query.page_size.val)
                 /\ \A l \in Positions(sql, {"LIMIT "}) :
                        \A o \in Positions(sql, {"OFFSET "}) : l < o
            /\ ~query.page.some => Positions(sql, {"OFFSET "}) = {}
            /\ (~query.page.some /\ ~query.page_size.some) =>
                 Positions(sql, {"LIMIT ", "OFFSET "}) = {}

C7_Witness ==
    /\ pc = "returned"
    /\ query.sql_type = "SELECT"
    /\ query.page = Some(2)
    /\ query.page_size = Some(10)
    /\ SubSeq(result.val.sql, Len(result.val.sql) - 2, Len(result.val.sql))
         = <<"OFFSET ", "2", "0">>

(***************************************************************************)
(* C8: a SELECT with page set and page_size absent is fatal.               *)
(***************************************************************************)
C8_PageWithoutSizeIsFatal ==
    (pc # "ready" /\ query.sql_type = "SELECT" /\ query.page.some /\ ~query.page_size.some)
        => (pc = "panicked" /\ result = None)

C8_Witness ==
    /\ pc = "panicked"
    /\ query.sql_type = "SELECT"
    /\ query.from.some
    /\ \A i \in DOMAIN query.joins : Len(query.joins[i].column1) = Len(query.joins[i].column2)
    /\ query.page.some
    /\ ~query.page_size.some

(***************************************************************************)
(* C9: a SELECT with a join whose two column lists differ in length is     *)
(* fatal, whichever list is the longer one.                                *)
(***************************************************************************)
MismatchedJoin(join) == Len(join.column1) # Len(join.column2)

C9_MismatchedJoinIsFatal ==
    (pc # "ready" /\ query.sql_type = "SELECT"
       /\ \E i \in DOMAIN query.joins : MismatchedJoin(query.joins[i]))
        => (pc = "panicked" /\ result = None)

\* the case an out-of-bounds index would not catch: the right list is longer
C9_Witness ==
    /\ pc = "panicked"
    /\ query.sql_type = "SELECT"
    /\ query.from.some
    /\ ~(query.page.some /\ ~query.page_size.some)
    /\ \E i \in DOMAIN query.joins : Len(query.joins[i].column1) < Len(query.joins[i].column2)

(***************************************************************************)
(* C10: an INSERT with an empty values list is fatal.                      *)
(***************************************************************************)
C10_EmptyValuesIsFatal ==
    (pc # "ready" /\ query.sql_type = "INSERT" /\ query.values = <<>>)
        => (pc = "panicked" /\ result = None)

C10_Witness ==
    /\ pc = "panicked"
    /\ query.sql_type = "INSERT"
    /\ get_from_table(query).some
    /\ query.enumerated_fields # <<>>
    /\ query.values = <<>>

(***************************************************************************)
(* Joins.                                                                  *)
(***************************************************************************)
\* the k-th smallest member of a set of positions
Sorted(P) ==
    [k \in 1 .. Cardinality(P) |-> CHOOSE p \in P : Cardinality({r \in P : r < p}) = k - 1]

\* the statement's text up to its WHERE clause: the field list, FROM and the joins
BeforeWhere(text) ==
    LET W == Positions(text, {"WHERE "})
    IN  IF W = {} THEN text
        ELSE SubSeq(text, 1, (CHOOSE p \in W : \A r \in W : p <= r) - 1)

\* the equalities <<keyword, left, right>> a text renders after ON and AND
Equalities(text) ==
    LET P == Sorted({ p \in Positions(text, {"ON ", "AND "}) :
                        p + 3 <= Len(text) /\ text[p + 2] = " = " })
    IN  [k \in DOMAIN P |-> <<text[P[k]], text[P[k] + 1], text[P[k] + 3]>>]

\* the pairs of one join: the first after ON, the later ones after AND
JoinPairs(join) ==
    [i \in DOMAIN join.column1 |->
        <<IF i = 1 THEN "ON " ELSE "AND ", join.column1[i], join.column2[i]>>]

\* C11: a SELECT that is returned renders, for each join with k column pairs,
\* exactly k equalities left[i] = right[i] in pair order, the first of each
\* join introduced by ON and the later ones by AND.
C11_JoinEqualities ==
    (pc = "returned" /\ query.sql_type = "SELECT")
        => Equalities(BeforeWhere(result.val.sql)) = ConcatMap(JoinPairs, query.joins)

C11_Witness ==
    /\ pc = "returned"
    /\ query.sql_type = "SELECT"
    /\ Len(query.joins) = 2
    /\ Len(query.joins[1].column1) = 2
    /\ Len(query.joins[2].column1) = 1
    /\ Len(Equalities(BeforeWhere(result.val.sql))) = 3

(***************************************************************************)
(* RETURNING.                                                              *)
(***************************************************************************)
EmitsReturning ==
    SupportsReturningClause \in sql_options /\ query.enumerated_returns # <<>>

\* the same statement without its returning fields
WithoutReturns == build_query(sql_options, [query EXCEPT !.enumerated_returns = <<>>])

\* C12: an INSERT or UPDATE has a RETURNING clause exactly when the profile
\* supports it and the query has returning fields; without both, the
\* compilation ends as that of the query without returning fields does, with
\* the same text and the same parameters.
C12_Returning ==
    (pc # "ready" /\ query.sql_type \in {"INSERT", "UPDATE"})
        => /\ pc = "returned"
                => /\ Cardinality(Positions(result.val.sql, {"RETURNING "}))
                        = IF EmitsReturning THEN 1 ELSE 0
                   /\ Len(result.val.params) >= Len(WithoutReturns.params)
           /\ ~EmitsReturning
                => IF WithoutReturns.panicked THEN pc = "panicked"
                   ELSE result = Returned(WithoutReturns)

C12_Witness ==
    /\ pc = "returned"
    /\ query.sql_type = "UPDATE"
    /\ query.enumerated_returns # <<>>
    /\ SupportsReturningClause \notin sql_options
    /\ query.filters # <<>>
    /\ Positions(result.val.sql, {"RETURNING "}) = {}

(***************************************************************************)
(* The SET clause of UPDATE.                                               *)
(***************************************************************************)
\* the SET clause of a text: from SET to the end of its line
SetClause(text) ==
    LET S == Positions(text, {"SET "})
    IN  IF S = {} THEN <<>>
        ELSE LET p == CHOOSE s \in S : TRUE
                 E == { e \in Positions(text, {"\n", "RETURNING "}) : e > p }
             IN  SubSeq(text, p,
                        IF E = {} THEN Len(text) ELSE (CHOOSE e \in E : \A r \in E : e <= r) - 1)

SetColumns == get_enumerated_columns(query)

IsLiteral(operand) == operand.kind = "Value"

\* the values paired with the settable columns
PairedValues == SubSeq(query.values, 1, Len(SetColumns))

LiteralsIn(operands) ==
    LET R[i \in 0 .. Len(operands)] ==
            IF i = 0 THEN <<>>
            ELSE IF IsLiteral(operands[i]) THEN Append(R[i - 1], operands[i].value)
            ELSE R[i - 1]
    IN  R[Len(operands)]

\* SET c1 = ?, c2 = ?, .. with one placeholder for every column
FullSetClause ==
    LET A[i \in 0 .. Len(SetColumns)] ==
            IF i = 0 THEN <<"SET ">>
            ELSE A[i - 1] \o (IF i > 1 THEN <<", ">> ELSE <<>>)
                          \o <<SetColumns[i].column, " = ", "?">>
    IN  IF SetColumns = <<>> THEN <<>> ELSE A[Len(SetColumns)]

\* C13: an UPDATE of n settable columns with n values that are all literals
\* has exactly n assignments in its SET clause, column = placeholder in
\* column order, and its first n parameters are the n values in order.
C13_SetAssignments ==
    (pc = "returned" /\ query.sql_type = "UPDATE"
        /\ Len(query.values) = Len(SetColumns)
        /\ \A i \in DOMAIN query.values : IsLiteral(query.values[i]))
        => /\ Unnumber(SetClause(result.val.sql)) = FullSetClause
           /\ Len(result.val.params) >= Len(SetColumns)
           /\ SubSeq(result.val.params, 1, Len(SetColumns)) = LiteralsIn(query.values)
           /\ UsesNumberedParam \in sql_options
                => \A i \in DOMAIN SetColumns :
                      SubSeq(SetClause(result.val.sql), 5 * i - 1, 5 * i) = <<"$">> \o fmt(i)

C13_Witness ==
    /\ pc = "returned"
    /\ query.sql_type = "UPDATE"
    /\ Len(SetColumns) = 2
    /\ Len(query.values) = 2
    /\ \A i \in DOMAIN query.values : IsLiteral(query.values[i])
    /\ query.filters # <<>>
    /\ Cardinality(Positions(SetClause(result.val.sql), {" = "})) = 2

\* no sub-query of the WHERE clause panics
FiltersCompile ==
    ~build_filters(sql_options, new(sql_options), query, query.filters).panicked

HasSkippedValue == \E i \in DOMAIN PairedValues : ~IsLiteral(PairedValues[i])

\* the columns a SET clause names before an equals sign
AssignedColumns(text) == { text[p - 1] : p \in Positions(text, {" = "}) }

LiteralColumns ==
    { SetColumns[i].column : i \in { k \in DOMAIN PairedValues : IsLiteral(PairedValues[k]) } }

SetClauseOfLiterals ==
    LET A[i \in 0 .. Len(SetColumns)] ==
            IF i = 0 THEN <<"SET ">>
            ELSE A[i - 1] \o (IF i > 1 THEN <<", ">> ELSE <<>>)
                          \o <<SetColumns[i].column, " = ">>
                          \o (IF IsLiteral(PairedValues[i]) THEN <<"?">> ELSE <<>>)
    IN  IF SetColumns = <<>> THEN <<>> ELSE A[Len(SetColumns)]

Functions ==
    { op \in { query.enumerated_fields[i].operand : i \in DOMAIN query.enumerated_fields }
             \cup { query.having[i].left : i \in DOMAIN query.having }
             \cup { f.condition.left : f \in QueryFilterNodes } :
        op.kind = "Function" }

OperandText(operand) == build_operand(sql_options, new(sql_options), query, operand)

\* C16: a function operand of a returned statement renders as its name, an
\* opening parenthesis, its arguments and a closing parenthesis, the name is
\* in the statement's text right before the parenthesis, and the same
\* arguments under another name render differently.
C16_FunctionName ==
    pc = "returned"
        => \A f \in Functions :
              LET text == OperandText(f).sql
              IN  /\ Len(text) >= 3
                  /\ text[1] = f.function.function
                  /\ text[2] = "("
                  /\ text[Len(text)] = ")"
                  /\ \E p \in Positions(result.val.sql, {f.function.function}) :
                        p < Len(result.val.sql) /\ result.val.sql[p + 1] = "("
                  /\ OperandText(Function("other", f.function.params)).sql # text

NullTests == { f \in QueryFilterNodes : f.condition.equality \in {"IS_NULL", "IS_NOT_NULL"} }

\* C17: the text and the parameters of an IS_NULL or IS_NOT_NULL condition of
\* a returned statement do not depend on its right operand, and a literal
\* right operand gives neither a placeholder nor a parameter.
C17_NullTestIgnoresRight ==
    pc = "returned"
        => \A f \in NullTests :
              /\ \A r \in {Value(MaxVal), ColB, Vec(<<>>)} :
                    LET other == ConditionText([f.condition EXCEPT !.right = r])
                    IN  /\ other.sql = ConditionText(f.condition).sql
                        /\ other.params = ConditionText(f.condition).params
              /\ (IsLiteral(f.condition.right) /\ ~IsLiteral(f.condition.left))
                    => /\ ConditionText(f.condition).params = <<>>
                       /\ PlaceholderPositions(ConditionText(f.condition).sql) = {}

(***************************************************************************)
(* The clause order of SELECT.                                             *)
(***************************************************************************)
Fresh == new(sql_options)

\* the clauses of the query, each compiled alone, in the order of the claim
Clauses ==
    << build_select_fields(sql_options, query),
       build_select_from(sql_options, Fresh, query),
       build_joins(Fresh, query.joins, 1),
       build_where(sql_options, Fresh, query),
       build_group_by(sql_options, Fresh, query),
       build_having(sql_options, Fresh, query),
       build_order_by(Fresh, query),
       build_limit(Fresh, query),
       build_offset(Fresh, query) >>

ClauseKeyword ==
    <<"SELECT ", " FROM ", "JOIN ", "WHERE ", "GROUP BY ", "HAVING ", "ORDER BY ", "LIMIT ",
      "OFFSET ">>

\* whether the query has the source of the clause
ClauseSource ==
    << TRUE, TRUE, query.joins # <<>>, query.filters # <<>>, query.group_by # <<>>,
       query.having # <<>>, query.order_by # <<>>, query.page_size.some, query.page.some >>

ClauseText(c) == Unnumber(c.sql)

ClauseParams(c) == c.params

\* the first position of a token in a text, 0 when it has none
First(text, tok) ==
    LET P == Positions(text, {tok})
    IN  IF P = {} THEN 0 ELSE CHOOSE p \in P : \A r \in P : p <= r

\* C19: the text of a returned SELECT is the field list, FROM, the joins,
\* WHERE, GROUP BY, HAVING, ORDER BY, LIMIT and OFFSET in that order, every
\* optional clause there exactly when the query has its source and then once,
\* and its parameters are those of the clauses in the same order.
C19_ClauseOrder ==
    (pc = "returned" /\ query.sql_type = "SELECT")
        => LET sql == result.val.sql
               clauses == Clauses
               first == [i \in 1 .. 9 |-> First(sql, ClauseKeyword[i])]
           IN  /\ Unnumber(sql) = ConcatMap(ClauseText, clauses)
               /\ result.val.params = ConcatMap(ClauseParams, clauses)
               /\ \A i \in 3 .. 9 :
                     /\ (clauses[i].sql # <<>>) <=> ClauseSource[i]
                     /\ ClauseSource[i]
                           => \E p \in 1 .. 5 : First(clauses[i].sql, ClauseKeyword[i]) = p
               /\ \A i \in 5 .. 9 :
                     Cardinality(Positions(sql, {ClauseKeyword[i]}))
                        = IF ClauseSource[i] THEN 1 ELSE 0
               /\ \A i, j \in 1 .. 9 :
                     (i < j /\ ClauseSource[i] /\ ClauseSource[j])
                        => (first[i] > 0 /\ first[i] < first[j])

C19_Witness ==
    /\ pc = "returned"
    /\ query.sql_type = "SELECT"
    /\ \A i \in 1 .. 9 : ClauseSource[i]
    /\ Len(query.filters) = MaxFilters
    /\ \A i \in 1 .. 9 : First(result.val.sql, ClauseKeyword[i]) > 0
    /\ Len(result.val.params) >= 3

(***************************************************************************)
(* Column references.                                                      *)
(***************************************************************************)
ColumnNames == {"a", "b", "c"}

TableNames == {"t", "u"}

\* the column names of a text from left to right, each with its table when
\* the text has table and dot right before it
RenderedColumns(text) ==
    LET P == Sorted(Positions(text, ColumnNames))
    IN  [k \in DOMAIN P |->
            IF P[k] > 2 /\ text[P[k] - 1] = "." /\ text[P[k] - 2] \in TableNames
              THEN <<text[P[k] - 2], ".", text[P[k]]>>
              ELSE <<text[P[k]]>>]

RECURSIVE ColumnsOfOperand(_, _, _)
RECURSIVE ColumnsOfFilter(_, _, _)
RECURSIVE ColumnsOfQuery(_, _)

\* what the claim says of the column references in an operand of the query
\* enclosing: bare without joins, table.column with joins, a sub-query by
\* its own joins
ColumnsOfOperand(opts, enclosing, operand) ==
    CASE operand.kind = "ColumnName" ->
           IF enclosing.joins = <<>>
             THEN << <<operand.column_name.column>> >>
             ELSE << <<operand.column_name.table, ".", operand.column_name.column>> >>
      [] operand.kind = "Function" ->
           ConcatMap(LAMBDA o : ColumnsOfOperand(opts, enclosing, o), operand.function.params)
      [] operand.kind = "Vec" ->
           ConcatMap(LAMBDA o : ColumnsOfOperand(opts, enclosing, o), operand.operands)
      [] operand.kind = "Query" -> ColumnsOfQuery(opts, operand.query)
      [] OTHER -> <<>>

ColumnsOfCondition(opts, enclosing, cond) ==
    ColumnsOfOperand(opts, enclosing, cond.left) \o ColumnsOfOperand(opts, enclosing, cond.right)

ColumnsOfFilter(opts, enclosing, filter) ==
    ColumnsOfCondition(opts, enclosing, filter.condition)
    \o ConcatMap(LAMBDA f : ColumnsOfFilter(opts, enclosing, f), filter.subfilters)

ColumnsOfFields(opts, enclosing, fields) ==
    ConcatMap(LAMBDA f : ColumnsOfOperand(opts, enclosing, f.operand), fields)

ColumnsOfReturning(opts, q) ==
    IF SupportsReturningClause \in opts THEN ColumnsOfFields(opts, q, q.enumerated_returns)
    ELSE <<>>

\* the column names of a statement in the order it writes them; the settable
\* columns of UPDATE are names, not operands, and the values UPDATE pairs
\* with them are not rendered unless literal
ColumnsOfQuery(opts, q) ==
    LET where == ConcatMap(LAMBDA f : ColumnsOfFilter(opts, q, f), q.filters)
    IN  CASE q.sql_type = "SELECT" ->
               ColumnsOfFields(opts, q, q.enumerated_fields)
               \o where
               \o ConcatMap(LAMBDA o : ColumnsOfOperand(opts, q, o), q.group_by)
               \o ConcatMap(LAMBDA c : ColumnsOfCondition(opts, q, c), q.having)
          [] q.sql_type = "INSERT" ->
               ColumnsOfFields(opts, q, q.enumerated_fields)
               \o ConcatMap(LAMBDA o : ColumnsOfOperand(opts, q, o), q.values)
               \o ColumnsOfReturning(opts, q)
          [] q.sql_type = "UPDATE" ->
               ConcatMap(LAMBDA c : << <<c.column>> >>, get_enumerated_columns(q))
               \o where
               \o ColumnsOfReturning(opts, q)
          [] q.sql_type = "DELETE" -> where

\* C20: in a returned statement every column reference is written bare when
\* the nearest query that encloses it has no joins and as table.column when
\* that query has a join; a reference inside a sub-query follows the joins
\* of the sub-query, one inside function arguments, an operand list or a
\* subfilter those of the query the operand belongs to.
C20_ColumnQualification ==
    pc = "returned"
        => RenderedColumns(result.val.sql) = ColumnsOfQuery(sql_options, query)

C20_Witness ==
    /\ pc = "returned"
    /\ query.sql_type = "SELECT"
    /\ query.joins = <<>>
    /\ \E f \in QueryFilterNodes :
          /\ f.condition.left.kind = "ColumnName"
          /\ f.condition.right.kind = "Query"
          /\ f.condition.right.query.joins # <<>>
    /\ \E k \in DOMAIN RenderedColumns(result.val.sql) :
          Len(RenderedColumns(result.val.sql)[k]) = 3
    /\ \E k \in DOMAIN RenderedColumns(result.val.sql) :
          Len(RenderedColumns(result.val.sql)[k]) = 1

(***************************************************************************)
(* Compilations side by side and one after the other.                      *)
(***************************************************************************)
\* C14: a thread that compiled its query, kept the fragment and compiled the
\* same query again under the same profile holds two equal fragments, text
\* and parameters.
C14_SameResultTwice ==
    \A t \in DOMAIN threads :
        (threads[t].pc = "returned" /\ threads[t].previous.some)
            => threads[t].result = threads[t].previous

C14_Witness ==
    \E t \in DOMAIN threads :
        /\ threads[t].pc = "returned"
        /\ threads[t].previous.some
        /\ threads[t].query.sql_type = "SELECT"
        /\ UsesNumberedParam \in sql_options
        /\ Len(threads[t].result.val.params) >= 3
        /\ Positions(threads[t].result.val.sql, {"$"}) # {}

\* the blocks 1 .. k of the builder of q run alone
RECURSIVE Alone(_, _, _)
Alone(opts, q, k) ==
    IF k = 0 THEN new(opts)
    ELSE LET w == Alone(opts, q, k - 1)
         IN  CASE q.sql_type = "SELECT" -> select_step(opts, w, q, k)
               [] q.sql_type = "INSERT" -> insert_step(opts, w, q, k)
               [] q.sql_type = "UPDATE" -> update_step(opts, w, q, k)
               [] q.sql_type = "DELETE" -> delete_step(opts, w, q, k)

\* C15: however the blocks of the two compilations are interleaved, each
\* thread's writer holds what its own blocks wrote when run alone, a thread
\* that returned holds the fragment build_query gives for its query alone,
\* and a thread panics only when its query alone does.
C15_Interleaving ==
    \A t \in DOMAIN threads :
        LET alone == build_query(sql_options, threads[t].query)
        IN  /\ threads[t].pc = "returned"
                => (~alone.panicked /\ threads[t].result = Returned(alone))
            /\ threads[t].pc = "panicked" => alone.panicked
            /\ (threads[t].pc = "running" /\ ~threads[t].previous.some)
                => threads[t].w = Alone(sql_options, threads[t].query, threads[t].step - 1)

C15_Witness ==
    /\ DOMAIN threads = Threads
    /\ threads[1].query.sql_type = "SELECT"
    /\ threads[2].query.sql_type = "UPDATE"
    /\ threads[1].pc = "returned"
    /\ threads[2].pc = "returned"
    /\ ~threads[1].previous.some
    /\ ~threads[2].previous.some
    /\ Len(threads[1].result.val.params) >= 3
    /\ Len(threads[2].result.val.params) >= 2
    /\ threads[1].result # threads[2].result

(***************************************************************************)
(* Table references.                                                       *)
(***************************************************************************)
\* what the claim says of a table under the profile
TableText(table_name) ==
    IF UsesSchema \in sql_options
      THEN <<table_name.schema, ".", table_name.name>>
      ELSE <<table_name.name>>

\* the text has exactly the tokens toks right after position p
Follows(text, p, toks) ==
    /\ p + Len(toks) <= Len(text)
    /\ SubSeq(text, p + 1, p + Len(toks)) = toks
    /\ p + Len(toks) < Len(text) => text[p + Len(toks) + 1] # "."

\* C21: in a returned SELECT or INSERT the table after FROM, respectively
\* after INSERT INTO, is written schema.table under a profile with the
\* schema capability and as the bare table name under one without it, and
\* so is the table after the FROM of every sub-query in the text.
C21_TableQualification ==
    (pc = "returned" /\ query.sql_type \in {"SELECT", "INSERT"})
        => LET sql == result.val.sql
               target == First(sql, IF query.sql_type = "SELECT" THEN " FROM "
                                    ELSE "INSERT INTO ")
           IN  /\ target > 0
               /\ Follows(sql, target, TableText(get_from_table(query).val))
               /\ \A p \in Positions(sql, {" FROM "}) :
                     \E name \in TableNames :
                        Follows(sql, p, TableText([schema |-> "s", name |-> name]))

C21_Witness ==
    /\ pc = "returned"
    /\ query.sql_type = "SELECT"
    /\ UsesSchema \notin sql_options
    /\ Cardinality(Positions(result.val.sql, {" FROM "})) >= 2
    /\ Follows(result.val.sql, First(result.val.sql, " FROM "), <<"t">>)

(***************************************************************************)
(* Operand lists.                                                          *)
(***************************************************************************)
\* the conditions of the query's filters whose right operand is a list
ListConditions == { f.condition : f \in { g \in QueryFilterNodes : g.condition.right.kind = "Vec" } }

\* ( m1, m2, .. ) for the members compiled one by one, nothing for no member
ListText(operands) ==
    LET A[i \in 0 .. Len(operands)] ==
            IF i = 0 THEN <<"(">>
            ELSE A[i - 1] \o (IF i > 1 THEN <<", ">> ELSE <<>>)
                          \o Unnumber(OperandText(operands[i]).sql)
    IN  IF operands = <<>> THEN <<>> ELSE A[Len(operands)] \o <<")">>

\* the text has the tokens toks somewhere in a row
Contains(text, toks) ==
    \E p \in 0 .. Len(text) - Len(toks) : SubSeq(text, p + 1, p + Len(toks)) = toks

\* C22: a condition of a returned statement whose right operand is a list
\* ends with ( m1, m2, .. ), the members compiled in order, when the list
\* has members, and with its operator when the list is empty; its
\* parameters are those of the left operand and of the members; and the
\* statement's text has the condition written that way.
C22_OperandList ==
    pc = "returned"
        => \A c \in ListConditions :
              LET text == Unnumber(ConditionText(c).sql)
                  list == ListText(c.right.operands)
                  head == Len(text) - Len(list)
              IN  /\ head >= 1
                  /\ SubSeq(text, head + 1, Len(text)) = list
                  /\ text[head] \in {"IN ", "NOT IN "}
                  /\ c.right.operands = <<>>
                        => Positions(text, {"(", ")", "?"}) = {}
                  /\ ConditionText(c).params
                        = LiteralsOfOperand(sql_options, c.left)
                          \o LiteralsOfOperand(sql_options, c.right)
                  /\ Cardinality(Positions(list, {", "})) = IF c.right.operands = <<>> THEN 0
                                                           ELSE Len(c.right.operands) - 1
                  /\ Contains(Unnumber(result.val.sql), text)

C22_Witness ==
    /\ pc = "returned"
    /\ Len(query.filters) = MaxFilters
    /\ \E c \in ListConditions : c.right.operands = <<>>
    /\ \E p \in Positions(result.val.sql, {"NOT IN "}) :
          p < Len(result.val.sql) /\ result.val.sql[p + 1] = "\n"

(***************************************************************************)
(* The VALUES clause of INSERT.                                            *)
(***************************************************************************)
\* the tokens of a text after the first tok up to the next ") "
Enclosed(text, tok) ==
    LET p == First(text, tok)
        E == { e \in Positions(text, {") "}) : e > p }
    IN  IF p = 0 \/ E = {} THEN <<>>
        ELSE SubSeq(text, p + 1, (CHOOSE e \in E : \A r \in E : e <= r) - 1)

\* the number of entries of a comma-separated list
Entries(list) == IF list = <<>> THEN 0 ELSE Cardinality(Positions(list, {", "})) + 1

\* C23: in a returned INSERT the VALUES clause has as many entries as the
\* column list has columns, one for every element of values in order.
C23_ValuesMatchColumns ==
    (pc = "returned" /\ query.sql_type = "INSERT")
        => LET sql == Unnumber(result.val.sql)
               columns == Enclosed(sql, "(")
               entries == Enclosed(sql, "VALUES( ")
           IN  /\ Entries(columns) = Len(query.enumerated_fields)
               /\ Entries(entries) = Len(query.values)
               /\ entries = SubSeq(ListText(query.values), 2, Len(ListText(query.values)) - 1)
               /\ Entries(entries) = Entries(columns)

(***************************************************************************)
(* Tables that do not follow the profile.                                  *)
(***************************************************************************)
\* the text has schema.table of the table right after position p
CompleteNameAt(text, p, table_name) ==
    /\ p > 0
    /\ p + 3 <= Len(text)
    /\ SubSeq(text, p + 1, p + 3) = <<table_name.schema, ".", table_name.name>>

\* C24: a returned UPDATE and a returned DELETE have the complete name
\* schema.table of their target after the keyword, and a returned SELECT has
\* the complete name of the table of its k-th join after its k-th JOIN,
\* under every profile, with or without the schema capability.
C24_CompleteNames ==
    pc = "returned"
        => LET sql == result.val.sql
           IN  /\ query.sql_type = "UPDATE"
                    => CompleteNameAt(sql, First(sql, "UPDATE "), get_from_table(query).val)
               /\ query.sql_type = "DELETE"
                    => CompleteNameAt(sql, First(sql, "DELETE FROM "),
                                      get_from_table(query).val)
               /\ query.sql_type = "SELECT"
                    => LET J == Sorted(Positions(BeforeWhere(sql), {"JOIN "}))
                       IN  /\ Len(J) = Len(query.joins)
                           /\ \A k \in DOMAIN J :
                                 CompleteNameAt(sql, J[k], query.joins[k].table_name)

C24_Witness ==
    /\ pc = "returned"
    /\ query.sql_type = "SELECT"
    /\ UsesSchema \notin sql_options
    /\ Len(query.joins) = 2
    /\ Follows(result.val.sql, First(result.val.sql, " FROM "), <<"t">>)
    /\ CompleteNameAt(result.val.sql, First(result.val.sql, "JOIN "), query.joins[1].table_name)

(***************************************************************************)
(* Sub-query operands.                                                     *)
(***************************************************************************)
\* the sub-queries the statement renders as operands: the right operands of
\* its filters and, for INSERT, its values
SubQueriesRendered ==
    { f.condition.right.query :
        f \in { g \in QueryFilterNodes : g.condition.right.kind = "Query" } }
    \cup (IF query.sql_type = "INSERT"
            THEN { query.values[i].query :
                     i \in { k \in DOMAIN query.values : query.values[k].kind = "Query" } }
            ELSE {})

\* a writer of the enclosing statement that already holds text and a parameter
Written == parameter(append(Fresh, <<"x", " ", "IN ">>), MaxVal)

\* C25: for every sub-query operand of a returned statement, compiling the
\* operand on a writer appends to it exactly the text that compiling the
\* nested query alone under the same profile returns, placeholders as
\* numbered there, and nothing else: no parenthesis and no parameter; and
\* the statement's text has that text right after the operator or comma.
C25_SubQuerySplice ==
    pc = "returned"
        => \A s \in SubQueriesRendered :
              LET alone == build_query(sql_options, s)
                  after == build_operand(sql_options, Written, query, QueryOperand(s))
              IN  /\ ~alone.panicked
                  /\ after = [Written EXCEPT !.sql = @ \o alone.sql]
                  /\ after.params = Written.params
                  /\ \E p \in Positions(result.val.sql, {"IN ", ", "}) :
                        /\ p + Len(alone.sql) <= Len(result.val.sql)
                        /\ SubSeq(result.val.sql, p + 1, p + Len(alone.sql)) = alone.sql

C25_Witness ==
    /\ pc = "returned"
    /\ UsesNumberedParam \in sql_options
    /\ query.sql_type = "UPDATE"
    /\ Len(result.val.params) >= 1
    /\ \E s \in SubQueriesRendered : Len(build_query(sql_options, s).params) >= 2
    /\ Cardinality(Positions(result.val.sql, {"$"})) > Len(result.val.params)

(***************************************************************************)
(* UPDATE with more or fewer values than settable columns.                 *)
(***************************************************************************)
\* the writer of the UPDATE when its SET loop ends or panics
AfterSet == build_update_set(build_update_table(sql_options, query), query)

\* the same UPDATE with the values beyond the settable columns left out
WithoutSurplus == build_query(sql_options, [query EXCEPT !.values = PairedValues])

\* C26: an UPDATE with fewer values than settable columns panics in its SET
\* loop right after writing the first column that has no value, and the
\* caller gets no fragment; an UPDATE with more values than settable
\* columns returns what the same UPDATE without the surplus values returns,
\* text and parameters.
C26_ValuesLength ==
    (pc # "ready" /\ query.sql_type = "UPDATE" /\ query.from.some)
        => /\ Len(query.values) < Len(SetColumns)
                => /\ pc = "panicked"
                   /\ result = None
                   /\ AfterSet.panicked
                   /\ SubSeq(AfterSet.sql, Len(AfterSet.sql) - 1, Len(AfterSet.sql))
                        = <<SetColumns[Len(query.values) + 1].column, " = ">>
                   /\ Cardinality(Positions(AfterSet.sql, {" = "})) = Len(query.values) + 1
           /\ (Len(query.values) > Len(SetColumns) /\ FiltersCompile)
                => /\ pc = "returned"
                   /\ ~WithoutSurplus.panicked
                   /\ result = Returned(WithoutSurplus)
                   /\ Cardinality(Positions(SetClause(result.val.sql), {" = "}))
                        = Len(SetColumns)

C26_Witness ==
    /\ pc = "panicked"
    /\ query.sql_type = "UPDATE"
    /\ query.from.some
    /\ FiltersCompile
    /\ Len(SetColumns) = 2
    /\ Len(query.values) = 1
    /\ AfterSet.params = <<1>>

====
